---- MODULE Spec2Model ----
(***************************************************************************)
(* ReadOrSkip chatbot: the text normalizer, the helper-phrase stripper,    *)
(* the book resolver, the conversation memory (chatbot.py) and the POST    *)
(* /get request handler (app.py).                                          *)
(*                                                                         *)
(* A Python str is a sequence of characters; a character is a one-letter   *)
(* string, except the typographic quotes and dashes, which are written     *)
(* "RSQUO", "LSQUO", "LDQUO", "RDQUO", "ENDASH", "EMDASH".                 *)
(***************************************************************************)
EXTENDS Integers, Sequences, FiniteSets, TLC

VARIABLES
    pc,          \* position of a run that applies one of the text functions
    input,       \* the str the text function is applied to
    once,        \* normalize_title(input)
    twice,       \* normalize_title(once)
    phrase,      \* position in HELPER_PHRASES of the phrase input starts with
    rest,        \* what follows the phrase in input
    cleaned,     \* clean_query_from_helpers(input)
    found,       \* find_book_in_message(input)
    books_data,  \* the catalog loaded from summaries.json: a sequence of entries
    last_book,   \* last_book["book"]: the position of an entry, NoBook for None
    request,     \* the request handled last, with the memory it found
    response,    \* what get_bot_reply made of it
    remembered,  \* the book of the latest request that resolved or picked one
    gap,         \* requests handled since that one
    thread,      \* the requests running get_bot_response concurrently
    accesses     \* the reads and writes of last_book["book"], in the order they happen

textVars == <<pc, input, once, twice, phrase, rest, cleaned, found>>
chatVars == <<request, response, remembered, gap>>
concVars == <<thread, accesses>>
vars == <<textVars, books_data, last_book, chatVars, concVars>>

----------------------------------------------------------------------------
(* Characters *)

Str(s) == [i \in 1..Len(s) |-> SubSeq(s, i, i)]

LowerLetters == Str("abcdefghijklmnopqrstuvwxyz")
UpperLetters == Str("ABCDEFGHIJKLMNOPQRSTUVWXYZ")
DigitChars == Str("0123456789")

Range(f) == {f[i] : i \in DOMAIN f}

\* \w of Python's re on str, on the characters modelled here
IsWordChar(c) == c \in Range(LowerLetters) \cup Range(UpperLetters) \cup Range(DigitChars) \cup {"_"}

\* \s of Python's re
IsSpaceChar(c) == c \in {" ", "\t", "\n"}

\* str.lower(), one character
LowerChar(c) ==
    IF c \in Range(UpperLetters)
    THEN LowerLetters[CHOOSE i \in DOMAIN UpperLetters : UpperLetters[i] = c]
    ELSE c

lower(s) == [i \in DOMAIN s |-> LowerChar(s[i])]

\* one character of _strip_smart_quotes
FoldChar(c) ==
    CASE c \in {"RSQUO", "LSQUO"} -> "'"
      [] c \in {"LDQUO", "RDQUO"} -> "\""
      [] c \in {"ENDASH", "EMDASH"} -> "-"
      [] OTHER -> c

_strip_smart_quotes(s) == [i \in DOMAIN s |-> FoldChar(s[i])]

----------------------------------------------------------------------------
(* Regular-expression primitives used by chatbot.py *)

\* re.sub(r"[^\w\s]", " ", s)
PunctToSpace(s) ==
    [i \in DOMAIN s |-> IF IsWordChar(s[i]) \/ IsSpaceChar(s[i]) THEN s[i] ELSE " "]

Min(S) == CHOOSE x \in S : \A y \in S : x <= y
Max(S) == CHOOSE x \in S : \A y \in S : x >= y

\* the characters of s at the positions of S, in the order of s
AtPositions(s, S) ==
    LET rank == [i \in S |-> Cardinality({j \in S : j <= i})]
    IN  [k \in 1..Cardinality(S) |-> s[CHOOSE i \in S : rank[i] = k]]

\* re.sub(r"\s+", " ", s): every maximal run of whitespace becomes one space
CollapseRuns(s) ==
    LET spaced == [i \in DOMAIN s |-> IF IsSpaceChar(s[i]) THEN " " ELSE s[i]]
        first == {i \in DOMAIN s : ~(IsSpaceChar(s[i]) /\ i > 1 /\ IsSpaceChar(s[i - 1]))}
    IN  AtPositions(spaced, first)

\* str.lstrip() and str.rstrip()
LStrip(s) ==
    LET black == {i \in DOMAIN s : ~IsSpaceChar(s[i])}
    IN  IF black = {} THEN <<>> ELSE SubSeq(s, Min(black), Len(s))

RStrip(s) ==
    LET black == {i \in DOMAIN s : ~IsSpaceChar(s[i])}
    IN  IF black = {} THEN <<>> ELSE SubSeq(s, 1, Max(black))

\* str.strip()
strip(s) == RStrip(LStrip(s))

\* re.sub(r"\s+", " ", s).strip()
CollapseWhitespace(s) == strip(CollapseRuns(s))

\* \b between s[i-1] and s[i] (the ends of the string count as non-word)
WordCharAt(s, i) == i \in DOMAIN s /\ IsWordChar(s[i])

Boundary(s, i) == WordCharAt(s, i - 1) # WordCharAt(s, i)

\* r"\b" + re.escape(p) + r"\b" matches s at position i
MatchAt(p, s, i) ==
    /\ i + Len(p) - 1 <= Len(s)
    /\ SubSeq(s, i, i + Len(p) - 1) = p
    /\ Boundary(s, i)
    /\ Boundary(s, i + Len(p))

\* the articles of r"^(the|a|an)\s+", in the order of the alternation
Articles == <<Str("the"), Str("a"), Str("an")>>

StartsWithArticle(s, a) ==
    /\ Len(s) > Len(a)
    /\ SubSeq(s, 1, Len(a)) = a
    /\ IsSpaceChar(s[Len(a) + 1])

\* some article of the alternation starts s
StartsWithAnArticle(s) == \E k \in DOMAIN Articles : StartsWithArticle(s, Articles[k])

\* StripLeadingArticle with the pattern r"^(the|a|an)\b": the whitespace stays
StripArticleKeepSpace(s) ==
    IF StartsWithAnArticle(s)
    THEN LET k == CHOOSE j \in DOMAIN Articles :
                      /\ StartsWithArticle(s, Articles[j])
                      /\ \A h \in 1..(j - 1) : ~StartsWithArticle(s, Articles[h])
         IN  SubSeq(s, Len(Articles[k]) + 1, Len(s))
    ELSE s

\* re.sub(r"^(the|a|an)\s+", "", s): one match at the start of the string
StripLeadingArticle(s) ==
    IF StartsWithAnArticle(s)
    THEN LET k == CHOOSE j \in DOMAIN Articles :
                      /\ StartsWithArticle(s, Articles[j])
                      /\ \A h \in 1..(j - 1) : ~StartsWithArticle(s, Articles[h])
         IN  LStrip(SubSeq(s, Len(Articles[k]) + 1, Len(s)))
    ELSE s

----------------------------------------------------------------------------
(* 3) Text normalization helpers *)

normalize_text(s) ==
    IF s = <<>> THEN <<>>
    ELSE CollapseWhitespace(PunctToSpace(_strip_smart_quotes(lower(s))))

normalize_title(s) == StripLeadingArticle(normalize_text(s))

\* Precompute normalized titles for all books: BOOK_TITLE_INDEX[i] is the
\* normalized title of books[i]; the entry itself is named by its position i
BOOK_TITLE_INDEX(books) == [i \in DOMAIN books |-> normalize_title(books[i].title)]

----------------------------------------------------------------------------
(* 4) Book finding *)

HELPER_PHRASES == <<
    Str("tell me about"), Str("summary of"), Str("give me the summary of"),
    Str("short summary of"), Str("what is"), Str("what's"), Str("whats"),
    Str("can you summarize"), Str("verdict on"), Str("who is the author of"),
    Str("author of"), Str("who wrote"), Str("writer of"), Str("how many pages in"),
    Str("total pages of"), Str("length of"), Str("page count of"),
    Str("number of pages in"), Str("how long is"), Str("rating of"),
    Str("goodreads rating of"), Str("average rating of"), Str("how is"),
    Str("what is the rating of") >>

\* re.sub(r"\b" + re.escape(p) + r"\b", "", s), scanning s from position i:
\* leftmost matches, not overlapping, each replaced by the empty string
RECURSIVE ReSubFrom(_, _, _)
ReSubFrom(p, s, i) ==
    LET matches == {j \in i..Len(s) : MatchAt(p, s, j)}
    IN  IF matches = {} THEN SubSeq(s, i, Len(s))
        ELSE SubSeq(s, i, Min(matches) - 1) \o ReSubFrom(p, s, Min(matches) + Len(p))

RemovePhrase(p, m) == ReSubFrom(p, m, 1)

\* the loop "for p in HELPER_PHRASES" over the phrases lo..hi of the list, in
\* list order: the first half of the range, then the second half on its result
RECURSIVE RemoveHelpersFrom(_, _, _)
RemoveHelpersFrom(m, lo, hi) ==
    IF lo = hi THEN RemovePhrase(HELPER_PHRASES[lo], m)
    ELSE LET mid == (lo + hi) \div 2
             half == RemoveHelpersFrom(m, lo, mid)
         IN  IF half = <<>> THEN <<>> ELSE RemoveHelpersFrom(half, mid + 1, hi)

clean_query_from_helpers(message) ==
    CollapseWhitespace(
        RemoveHelpersFrom(_strip_smart_quotes(lower(message)), 1, Len(HELPER_PHRASES)))

\* Contains with the title wanted between two spaces instead of two \b
ContainsBetweenSpaces(nt, msg_norm) ==
    \E i \in 2..Len(msg_norm) :
        /\ i + Len(nt) <= Len(msg_norm)
        /\ SubSeq(msg_norm, i, i + Len(nt) - 1) = nt
        /\ msg_norm[i - 1] = " "
        /\ msg_norm[i + Len(nt)] = " "

\* re.search(r"\b" + re.escape(nt) + r"\b", msg_norm)
Contains(nt, msg_norm) == \E i \in 1..Len(msg_norm) : MatchAt(nt, msg_norm, i)

\* the loop that fills candidates, over the first n entries of the index:
\* pairs <<len(nt), book>> in catalog order
RECURSIVE Candidates(_, _, _)
Candidates(index, msg_norm, n) ==
    IF n = 0 THEN <<>>
    ELSE LET before == Candidates(index, msg_norm, n - 1)
         IN  IF index[n] # <<>> /\ Contains(index[n], msg_norm)
             THEN Append(before, <<Len(index[n]), n>>)
             ELSE before

\* SortByKeyDesc as an ascending sort followed by a reversal: pairs of equal
\* key end up in the opposite order
RECURSIVE SortAscThenReverse(_)
SortAscThenReverse(c) ==
    IF c = <<>> THEN <<>>
    ELSE LET front == SortAscThenReverse(SubSeq(c, 1, Len(c) - 1))
             x == c[Len(c)]
             n == Cardinality({i \in DOMAIN front : front[i][1] > x[1]})
         IN  SubSeq(front, 1, n) \o <<x>> \o SubSeq(front, n + 1, Len(front))

\* list.sort(key=lambda x: x[0], reverse=True): stable, so pairs of equal
\* key keep their order
RECURSIVE SortByKeyDesc(_)
SortByKeyDesc(c) ==
    IF c = <<>> THEN <<>>
    ELSE LET front == SortByKeyDesc(SubSeq(c, 1, Len(c) - 1))
             x == c[Len(c)]
             n == Cardinality({i \in DOMAIN front : front[i][1] >= x[1]})
         IN  SubSeq(front, 1, n) \o <<x>> \o SubSeq(front, n + 1, Len(front))

\* code points of the characters a normalized text is made of, ascending
CodeOrder == Str(" 0123456789_abcdefghijklmnopqrstuvwxyz")

CharRank(c) == CHOOSE i \in DOMAIN CodeOrder : CodeOrder[i] = c

\* x < y for two str
StrLess(x, y) ==
    LET differ == {i \in 1..Min({Len(x), Len(y)}) : x[i] # y[i]}
    IN  IF differ = {} THEN Len(x) < Len(y)
        ELSE CharRank(x[Min(differ)]) < CharRank(y[Min(differ)])

\* a[i:i+k] == b[j:j+k], 0-based as in difflib
BlockEq(a, b, i, j, k) == \A d \in 1..k : a[i + d] = b[j + d]

\* SequenceMatcher.find_longest_match without junk (autojunk needs 200
\* elements): the longest block, of those the earliest in a, then in b
find_longest_match(a, b, alo, ahi, blo, bhi) ==
    LET HasBlock(k) == \E i \in alo..(ahi - k), j \in blo..(bhi - k) : BlockEq(a, b, i, j, k)
        k == Max({n \in 0..Min({ahi - alo, bhi - blo}) : HasBlock(n)})
        i == Min({x \in alo..(ahi - k) : \E j \in blo..(bhi - k) : BlockEq(a, b, x, j, k)})
        j == Min({y \in blo..(bhi - k) : BlockEq(a, b, i, y, k)})
    IN  IF k = 0 THEN <<alo, blo, 0>> ELSE <<i, j, k>>

\* sum of the sizes of SequenceMatcher.get_matching_blocks()
RECURSIVE MatchingSize(_, _, _, _, _, _)
MatchingSize(a, b, alo, ahi, blo, bhi) ==
    LET m == find_longest_match(a, b, alo, ahi, blo, bhi)
        i == m[1]
        j == m[2]
        k == m[3]
    IN  IF k = 0 THEN 0
        ELSE k + (IF alo < i /\ blo < j THEN MatchingSize(a, b, alo, i, blo, j) ELSE 0)
               + (IF i + k < ahi /\ j + k < bhi
                  THEN MatchingSize(a, b, i + k, ahi, j + k, bhi) ELSE 0)

\* cutoff=0.73, in hundredths
CUTOFF == 73

\* SequenceMatcher.ratio() of x and word is <<2 * matches, len(x) + len(word)>>
RatioNum(x, word) == 2 * MatchingSize(x, word, 0, Len(x), 0, Len(word))
RatioDen(x, word) == Len(x) + Len(word)

\* ratio() >= cutoff; ratio() is 1.0 when both strings are empty. The two
\* quick ratios tested first are upper bounds of ratio().
CloseEnough(x, word) ==
    IF RatioDen(x, word) = 0 THEN TRUE
    ELSE 100 * RatioNum(x, word) >= CUTOFF * RatioDen(x, word)

\* (ratio(x1), x1) < (ratio(x2), x2), the order heapq.nlargest sorts by
ScoredLess(x1, x2, word) ==
    LET n1 == IF RatioDen(x1, word) = 0 THEN 2 ELSE RatioNum(x1, word)
        d1 == IF RatioDen(x1, word) = 0 THEN 2 ELSE RatioDen(x1, word)
        n2 == IF RatioDen(x2, word) = 0 THEN 2 ELSE RatioNum(x2, word)
        d2 == IF RatioDen(x2, word) = 0 THEN 2 ELSE RatioDen(x2, word)
    IN  \/ n1 * d2 < n2 * d1
        \/ n1 * d2 = n2 * d1 /\ StrLess(x1, x2)

\* difflib.get_close_matches(word, possibilities, n=1, cutoff=0.73): the
\* set holding the best match, or the empty set
get_close_matches(word, possibilities) ==
    LET close == {x \in Range(possibilities) : CloseEnough(x, word)}
    IN  {x \in close : \A y \in close : ~ScoredLess(x, y, word)}

\* titles_norm.index(t)
IndexOf(titles_norm, t) == Min({i \in DOMAIN titles_norm : titles_norm[i] = t})

NoBook == 0

\* find_book_in_message against the index: the entry found (its position,
\* NoBook for None) and the tier that returned it
find_book_in_message(message, index) ==
    LET msg_norm == normalize_text(message)
        candidates == SortByKeyDesc(Candidates(index, msg_norm, Len(index)))
        equal == {i \in DOMAIN index : msg_norm = index[i]}
        match == get_close_matches(msg_norm, index)
        msg_norm_no_article == StripLeadingArticle(msg_norm)
        match2 == get_close_matches(msg_norm_no_article, index)
    IN  IF message = <<>> THEN [book |-> NoBook, tier |-> "empty"]
        ELSE IF msg_norm = <<>> THEN [book |-> NoBook, tier |-> "empty"]
        ELSE IF candidates # <<>> THEN [book |-> candidates[1][2], tier |-> "containment"]
        ELSE IF equal # {} THEN [book |-> Min(equal), tier |-> "exact"]
        ELSE IF match # {}
             THEN [book |-> IndexOf(index, CHOOSE t \in match : TRUE), tier |-> "fuzzy"]
        ELSE IF match2 # {}
             THEN [book |-> IndexOf(index, CHOOSE t \in match2 : TRUE), tier |-> "fuzzy_no_article"]
        ELSE [book |-> NoBook, tier |-> "none"]

\* Remove helper phrases first, then find the book in the cleaned text
extract_book_from_input(user_input, index) ==
    find_book_in_message(clean_query_from_helpers(user_input), index)

----------------------------------------------------------------------------
(* Values of the variables a specification does not use *)

NotFoundYet == [book |-> NoBook, tier |-> "pending"]
NoRequest == [json |-> "none", handled |-> FALSE, intent |-> "none", found |-> NoBook,
              picked |-> NoBook, before |-> NoBook, remembered |-> NoBook, gap |-> 0]
NoResponse == [outcome |-> "none", exception |-> "none", status |-> 0,
               reply |-> [kind |-> "none", book |-> NoBook]]

TextIdle ==
    /\ pc = "idle" /\ input = <<>> /\ once = <<>> /\ twice = <<>>
    /\ phrase = 0 /\ rest = <<>> /\ cleaned = <<>> /\ found = NotFoundYet

ChatIdle ==
    /\ request = NoRequest /\ response = NoResponse /\ remembered = NoBook /\ gap = 0

ConcIdle == thread = <<>> /\ accesses = <<>>

\* every str made of at most n of the given pieces
RECURSIVE Concats(_, _)
Concats(pieces, n) ==
    IF n = 0 THEN {<<>>}
    ELSE LET shorter == Concats(pieces, n - 1)
         IN  shorter \cup {m \o a : m \in shorter, a \in pieces}

----------------------------------------------------------------------------
(* normalize_title applied once and again *)

MaxTitlePieces == 4

TitlePieces == {Str("the "), Str("a "), Str("An"), Str(" "), Str("x"), Str("."), <<"RSQUO">>}

NormalizeInit ==
    /\ pc = "start"
    /\ input \in Concats(TitlePieces, MaxTitlePieces)
    /\ once = <<>> /\ twice = <<>>
    /\ phrase = 0 /\ rest = <<>> /\ cleaned = <<>> /\ found = NotFoundYet
    /\ books_data = <<>> /\ last_book = NoBook /\ ChatIdle /\ ConcIdle

NormalizeOnce ==
    /\ pc = "start"
    /\ once' = normalize_title(input)
    /\ pc' = "once"
    /\ UNCHANGED <<input, twice, phrase, rest, cleaned, found>>
    /\ UNCHANGED <<books_data, last_book, chatVars, concVars>>

NormalizeAgain ==
    /\ pc = "once"
    /\ twice' = normalize_title(once)
    /\ pc' = "twice"
    /\ UNCHANGED <<input, once, phrase, rest, cleaned, found>>
    /\ UNCHANGED <<books_data, last_book, chatVars, concVars>>

NormalizeNext == NormalizeOnce \/ NormalizeAgain

SpecNormalize == NormalizeInit /\ [][NormalizeNext]_vars

----------------------------------------------------------------------------
(* clean_query_from_helpers applied to a helper phrase, a space and a rest *)

StripRests == {Str("Dune"), Str("It Ends  with Us"), Str("the stand?"), Str("dun"),
               <<"i", "t", "RSQUO", "s">>, <<>>}

\* the rest holds no helper phrase
HasHelperPhrase(t) ==
    \E k \in DOMAIN HELPER_PHRASES, i \in 1..Len(t) :
        MatchAt(HELPER_PHRASES[k], _strip_smart_quotes(lower(t)), i)

StripInit ==
    /\ pc = "start"
    /\ phrase \in DOMAIN HELPER_PHRASES
    /\ rest \in {t \in StripRests : ~HasHelperPhrase(t)}
    /\ input = HELPER_PHRASES[phrase] \o <<" ">> \o rest
    /\ once = <<>> /\ twice = <<>> /\ cleaned = <<>> /\ found = NotFoundYet
    /\ books_data = <<>> /\ last_book = NoBook /\ ChatIdle /\ ConcIdle

StripHelpers ==
    /\ pc = "start"
    /\ cleaned' = clean_query_from_helpers(input)
    /\ pc' = "cleaned"
    /\ UNCHANGED <<input, once, twice, phrase, rest, found>>
    /\ UNCHANGED <<books_data, last_book, chatVars, concVars>>

\* the cleaned text goes to find_book_in_message, as in extract_book_from_input
StripNext == StripHelpers

SpecStrip == StripInit /\ [][StripNext]_vars

----------------------------------------------------------------------------
(* find_book_in_message applied to a message, against a catalog *)

MaxMessagePieces == 3

MessagePieces == {Str("it"), Str(" "), Str("ends with us"), Str("dune"), Str("dun"),
                  Str("the"), Str("It's"), Str("x")}

Entry(t) == [title |-> Str(t)]

FindCatalogs == {
    <<Entry("It"), Entry("Dune"), Entry("It Ends with Us"), Entry("DUNE!")>>,
    <<Entry("The Stand"), Entry("!!!"), Entry("A Dune"), Entry("The X")>> }

FindInit ==
    /\ pc = "start"
    /\ books_data \in FindCatalogs
    /\ input \in Concats(MessagePieces, MaxMessagePieces)
    /\ once = <<>> /\ twice = <<>> /\ phrase = 0 /\ rest = <<>> /\ cleaned = <<>>
    /\ found = NotFoundYet
    /\ last_book = NoBook /\ ChatIdle /\ ConcIdle

FindBook ==
    /\ pc = "start"
    /\ found' = find_book_in_message(input, BOOK_TITLE_INDEX(books_data))
    /\ pc' = "found"
    /\ UNCHANGED <<input, once, twice, phrase, rest, cleaned>>
    /\ UNCHANGED <<books_data, last_book, chatVars, concVars>>

FindNext == FindBook

SpecFind == FindInit /\ [][FindNext]_vars

----------------------------------------------------------------------------
(* 5) Main response function, and the POST /get handler of app.py *)

\* the labels clf.predict can return: the intent column of intents.csv;
\* "goodbye" stands for a label of the training data that no branch handles
Labels == {"greeting", "random_book", "summary", "verdict", "author", "pages", "rating",
           "goodbye"}

BookIntents == {"summary", "verdict", "author", "pages", "rating"}

\* reply strings, by the branch that formats them and the book they are about
GreetingReply == [kind |-> "greeting", book |-> NoBook]
RandomPickReply(book) == [kind |-> "random_pick", book |-> book]
PleaseMention == [kind |-> "please_mention", book |-> NoBook]
NoneReply == [kind |-> "None", book |-> NoBook]
ServerError == [kind |-> "server_error", book |-> NoBook]

\* the f-string of the intent's branch
BookReply(predicted_intent, book) == [kind |-> predicted_intent, book |-> book]

\* what a call does: the value returned or the exception raised, the value
\* last_book["book"] is left with, and the book found in the message, the
\* book picked at random
Return(reply, mem, book, pick) ==
    [raised |-> "none", returned |-> reply, last_book |-> mem, found |-> book, picked |-> pick]
Raise(exception, mem, book, pick) ==
    [raised |-> exception, returned |-> NoneReply, last_book |-> mem, found |-> book,
     picked |-> pick]

\* RememberPick that leaves the memory as it was
ForgetPick(book, mem) == mem

\* last_book["book"] = book of the random_book branch: the new value
RememberPick(book, mem) == book

\* Remember that clears the memory when the message names no book
RememberOrForget(book, mem) ==
    IF book # NoBook
    THEN [book |-> book, last_book |-> book]
    ELSE [book |-> mem, last_book |-> NoBook]

\* Remember without the fallback to the memory
RememberNoFallback(book, mem) ==
    IF book # NoBook
    THEN [book |-> book, last_book |-> book]
    ELSE [book |-> NoBook, last_book |-> mem]

\* "if book: last_book["book"] = book  else: book = last_book["book"]": the
\* book used and the new value of the memory
Remember(book, mem) ==
    IF book # NoBook
    THEN [book |-> book, last_book |-> book]
    ELSE [book |-> mem, last_book |-> mem]

\* MissingBook that lets every book through
NeverMissing(book) == FALSE

\* "if not book"
MissingBook(book) == book = NoBook

ChatMessages == {Str("who wrote Dune"), Str("Tell me about It Ends with Us"),
                 Str("summary of dun"), Str("what is the rating"), Str("hi"), <<>>}

ChatCatalogs == {
    <<Entry("It"), Entry("Dune"), Entry("It Ends with Us")>>,
    <<Entry("The Stand"), Entry("Dune")>>,
    <<>> }

\* book = extract_book_from_input(user_input), for every message and catalog
\* of the model: BOOK_TITLE_INDEX is computed once, when the module loads
BookNamed ==
    [books \in ChatCatalogs |->
        [user_input \in ChatMessages |->
            extract_book_from_input(user_input, BOOK_TITLE_INDEX(books)).book]]

\* lines 158-178, with the book used: the missing-title reply, or the reply
\* of the intent's branch
AnswerAbout(predicted_intent, book, used) ==
    IF MissingBook(used.book)
    THEN Return(PleaseMention, used.last_book, book, NoBook)
    ELSE IF used.book = NoBook
    THEN \* book.get on None
         Raise("AttributeError", used.last_book, book, NoBook)
    ELSE Return(BookReply(predicted_intent, used.book), used.last_book, book, NoBook)

\* the branch of the book-requiring intents, book being
\* extract_book_from_input(user_input)
BookBranch(predicted_intent, book, mem) ==
    AnswerAbout(predicted_intent, book, Remember(book, mem))

\* get_bot_response(user_input) with the label clf.predict returns and the
\* entry random.choice(books_data) draws; user_input is a JSON value
get_bot_response(user_input, predicted_intent, choice, books, mem) ==
    IF user_input.type # "str"
    THEN \* vectorizer.transform lowercases the document
         Raise("AttributeError", mem, NoBook, NoBook)
    ELSE IF predicted_intent = "greeting"
    THEN Return(GreetingReply, mem, NoBook, NoBook)
    ELSE IF predicted_intent = "random_book"
    THEN IF books = <<>>
         THEN Raise("IndexError", mem, NoBook, NoBook)
         ELSE Return(RandomPickReply(choice), RememberPick(choice, mem), NoBook, choice)
    ELSE IF predicted_intent \in BookIntents
    THEN BookBranch(predicted_intent, BookNamed[books][user_input.str], mem)
    ELSE \* no branch, no return statement
         Return(NoneReply, mem, NoBook, NoBook)

\* JSON values of the "message" key
JStr(m) == [type |-> "str", str |-> m]
JNull == [type |-> "null", str |-> <<>>]
JNumber == [type |-> "number", str |-> <<>>]

\* request bodies: what request.get_json() makes of them
Bodies ==
    {[json |-> j, has_message |-> FALSE, message |-> JNull] :
         j \in {"malformed", "null", "array", "object"}}
    \cup {[json |-> "object", has_message |-> TRUE, message |-> v] :
              v \in {JNull, JNumber} \cup {JStr(m) : m \in ChatMessages}}

\* the requests counted after the latest one that set the memory
MaxGap == 3

ChatInit ==
    /\ books_data \in ChatCatalogs
    /\ last_book = NoBook
    /\ ChatIdle /\ TextIdle /\ ConcIdle

\* data.get("message", "")
MessageOf(body) == IF body.has_message THEN body.message ELSE JStr(<<>>)

\* what get_bot_reply answers, call being what get_bot_response did
ResponseTo(body, call) ==
    IF body.json = "malformed"
    THEN \* request.get_json() raises, before the try
         [outcome |-> "raised", exception |-> "BadRequest", status |-> 400,
          reply |-> NoneReply]
    ELSE IF body.json # "object"
    THEN \* data.get on None or on a list, before the try
         [outcome |-> "raised", exception |-> "AttributeError", status |-> 500,
          reply |-> NoneReply]
    ELSE IF call.raised # "none"
    THEN [outcome |-> "returned", exception |-> call.raised, status |-> 500,
          reply |-> ServerError]
    ELSE [outcome |-> "returned", exception |-> "none", status |-> 200,
          reply |-> call.returned]

\* the handler's effect, call being what get_bot_response does when reached
Handle(body, predicted_intent, call) ==
    LET called == body.json = "object"
        sets == called /\ (call.picked # NoBook \/ call.found # NoBook)
    IN  /\ response' = ResponseTo(body, call)
        /\ last_book' = IF called THEN call.last_book ELSE last_book
        /\ request' = [json |-> body.json,
                       handled |-> called /\ call.raised = "none",
                       intent |-> IF called /\ MessageOf(body).type = "str"
                                  THEN predicted_intent ELSE "none",
                       found |-> IF called THEN call.found ELSE NoBook,
                       picked |-> IF called THEN call.picked ELSE NoBook,
                       before |-> last_book,
                       remembered |-> remembered,
                       gap |-> gap]
        /\ remembered' = IF ~sets THEN remembered
                         ELSE IF call.picked # NoBook THEN call.picked ELSE call.found
        /\ gap' = IF sets \/ remembered = NoBook THEN 0
                  ELSE IF gap < MaxGap THEN gap + 1 ELSE MaxGap
        /\ UNCHANGED <<textVars, books_data, concVars>>

\* POST /get with the given body; get_bot_response runs inside the try
get_bot_reply(body, predicted_intent, choice) ==
    /\ IF predicted_intent = "random_book" /\ body.json = "object" /\ books_data # <<>>
       THEN choice \in DOMAIN books_data
       ELSE choice = NoBook
    /\ Handle(body, predicted_intent,
              get_bot_response(MessageOf(body), predicted_intent, choice, books_data,
                               last_book))

Next ==
    \E body \in Bodies, predicted_intent \in Labels, choice \in {NoBook} \cup DOMAIN books_data :
        get_bot_reply(body, predicted_intent, choice)

Spec == ChatInit /\ [][Next]_vars

----------------------------------------------------------------------------
(* get_bot_response run by several requests at once: app.run serves each     *)
(* request on a thread of its own. A thread is preempted between bytecodes;  *)
(* the subscript load and the subscript store on the dict last_book are one  *)
(* bytecode each, so each is one step.                                       *)

\* the requests in flight
NumThreads == 2

Threads == 1..NumThreads

ConcMessages == {Str("who wrote Dune"), Str("Tell me about It Ends with Us"), Str("hi")}

ConcCatalogs == {c \in ChatCatalogs : c # <<>>}

IdleThread == [pc |-> "idle", user_input |-> <<>>, predicted_intent |-> "none",
               found |-> NoBook, book |-> NoBook, reply |-> NoneReply]

ConcInit ==
    /\ books_data \in ConcCatalogs
    /\ last_book = NoBook
    /\ thread = [t \in Threads |-> IdleThread]
    /\ accesses = <<>>
    /\ ChatIdle /\ TextIdle

\* Step A: the intent is predicted; the greeting and the unhandled label
\* return at once
Receive(t, user_input, predicted_intent) ==
    /\ thread[t].pc = "idle"
    /\ thread' = [thread EXCEPT ![t] =
           [@ EXCEPT !.user_input = user_input,
                     !.predicted_intent = predicted_intent,
                     !.pc = IF predicted_intent = "random_book" THEN "pick"
                            ELSE IF predicted_intent \in BookIntents THEN "extract"
                            ELSE "done",
                     !.reply = IF predicted_intent = "greeting" THEN GreetingReply
                               ELSE NoneReply]]
    /\ UNCHANGED <<textVars, books_data, last_book, chatVars, accesses>>

\* book = random.choice(books_data)
Pick(t, choice) ==
    /\ thread[t].pc = "pick"
    /\ choice \in DOMAIN books_data
    /\ thread' = [thread EXCEPT ![t] = [@ EXCEPT !.book = choice, !.pc = "store_pick"]]
    /\ UNCHANGED <<textVars, books_data, last_book, chatVars, accesses>>

\* last_book["book"] = book, and the return of the random_book branch
StorePick(t) ==
    /\ thread[t].pc = "store_pick"
    /\ last_book' = RememberPick(thread[t].book, last_book)
    /\ accesses' = Append(accesses, [thread |-> t, kind |-> "write", book |-> last_book'])
    /\ thread' = [thread EXCEPT ![t] =
           [@ EXCEPT !.reply = RandomPickReply(thread[t].book), !.pc = "done"]]
    /\ UNCHANGED <<textVars, books_data, chatVars>>

\* book = extract_book_from_input(user_input), and the test "if book"
Extract(t) ==
    /\ thread[t].pc = "extract"
    /\ thread' = [thread EXCEPT ![t] =
           [@ EXCEPT !.found = BookNamed[books_data][thread[t].user_input],
                     !.book = BookNamed[books_data][thread[t].user_input],
                     !.pc = IF BookNamed[books_data][thread[t].user_input] # NoBook
                            THEN "store" ELSE "load"]]
    /\ UNCHANGED <<textVars, books_data, last_book, chatVars, accesses>>

\* last_book["book"] = book
Store(t) ==
    /\ thread[t].pc = "store"
    /\ last_book' = Remember(thread[t].book, last_book).last_book
    /\ accesses' = Append(accesses, [thread |-> t, kind |-> "write", book |-> last_book'])
    /\ thread' = [thread EXCEPT ![t] = [@ EXCEPT !.pc = "answer"]]
    /\ UNCHANGED <<textVars, books_data, chatVars>>

\* book = last_book["book"]
Load(t) ==
    /\ thread[t].pc = "load"
    /\ thread' = [thread EXCEPT ![t] =
           [@ EXCEPT !.book = Remember(thread[t].book, last_book).book, !.pc = "answer"]]
    /\ accesses' = Append(accesses, [thread |-> t, kind |-> "read",
                                     book |-> thread'[t].book])
    /\ UNCHANGED <<textVars, books_data, last_book, chatVars>>

\* "if not book", and the reply of the intent's branch
Answer(t) ==
    /\ thread[t].pc = "answer"
    /\ thread' = [thread EXCEPT ![t] =
           [@ EXCEPT !.reply = AnswerAbout(thread[t].predicted_intent, thread[t].found,
                                           [book |-> thread[t].book,
                                            last_book |-> last_book]).returned,
                     !.pc = "done"]]
    /\ UNCHANGED <<textVars, books_data, last_book, chatVars, accesses>>

ConcNext ==
    \E t \in Threads :
        \/ \E user_input \in ConcMessages, predicted_intent \in Labels :
               Receive(t, user_input, predicted_intent)
        \/ \E choice \in DOMAIN books_data : Pick(t, choice)
        \/ StorePick(t)
        \/ Extract(t)
        \/ Store(t)
        \/ Load(t)
        \/ Answer(t)

SpecConc == ConcInit /\ [][ConcNext]_vars

----------------------------------------------------------------------------
(* Properties of the text functions *)

\* C6 as stated: normalize_title is idempotent: normalizing a normalized
\* title again changes nothing, also when the input begins with several
\* articles.
C6_NormalizeTitleIdempotent == pc = "twice" => twice = once

\* the normalized input begins with two article tokens in a row
TwoLeadingArticles ==
    /\ StartsWithAnArticle(normalize_text(input))
    /\ StartsWithAnArticle(StripLeadingArticle(normalize_text(input)))

\* C6 amended: normalize_title strips one leading article: a second
\* application changes nothing unless the normalized input begins with two
\* article tokens in a row, and then it strips the second article and nothing
\* else; normalize_text is idempotent.
C6_IdempotentUpToOneArticle ==
    pc = "twice" =>
        /\ ~TwoLeadingArticles => twice = once
        /\ twice = StripLeadingArticle(once)
        /\ normalize_text(once) = once

\* a title with one leading article, normalized twice
C6_Witness ==
    /\ pc = "twice"
    /\ ~TwoLeadingArticles
    /\ StartsWithAnArticle(normalize_text(input))
    /\ twice = once
    /\ once # <<>>

\* C5: for a helper phrase p and a rest t holding no helper phrase,
\* clean_query_from_helpers(p + " " + t) is t lowercased (quotes folded as the
\* function does) with whitespace collapsed, no word of p left over.
C5_PhraseRemovedWhole ==
    pc = "cleaned" => cleaned = CollapseWhitespace(_strip_smart_quotes(lower(rest)))

\* the normalized titles that occur in the normalized input between word
\* boundaries
ContainedTitles ==
    LET index == BOOK_TITLE_INDEX(books_data)
    IN  {i \in DOMAIN index : index[i] # <<>> /\ Contains(index[i], normalize_text(input))}

TitleLen(i) == Len(BOOK_TITLE_INDEX(books_data)[i])

\* C4: when some non-empty normalized title occurs in the normalized message
\* between word boundaries, find_book_in_message returns, from the containment
\* tier, the entry whose normalized title is longest among those contained, the
\* earliest in catalog order among the longest.
C4_LongestContainedWins ==
    (pc = "found" /\ ContainedTitles # {}) =>
        /\ found.tier = "containment"
        /\ found.book \in ContainedTitles
        /\ \A j \in ContainedTitles :
               \/ TitleLen(j) < TitleLen(found.book)
               \/ TitleLen(j) = TitleLen(found.book) /\ j >= found.book

\* a message holding a short title and two longest titles of the same length
C4_Witness ==
    /\ pc = "found"
    /\ \E i, j, k \in ContainedTitles :
           /\ i < j /\ TitleLen(i) = TitleLen(j) /\ TitleLen(k) < TitleLen(i)
           /\ found.book = i

\* the entries whose normalized title equals the normalized input
EqualTitles ==
    LET index == BOOK_TITLE_INDEX(books_data)
    IN  {i \in DOMAIN index : index[i] = normalize_text(input)}

\* C10 as stated: the exact-equality tier never decides: whenever the
\* normalized message equals a normalized title, the containment tier has a
\* candidate and returns the first entry in catalog order with that title.
C10_ExactTierNeverDecides ==
    pc = "found" =>
        /\ found.tier # "exact"
        /\ EqualTitles # {} =>
               found.tier = "containment" /\ found.book = Min(EqualTitles)

\* C10 amended: the exact-equality tier never decides: whenever the normalized
\* message is not empty and equals a normalized title, the containment tier
\* returns the first entry in catalog order with that title; an empty
\* normalized message returns None at the empty guard, also when an entry's
\* normalized title is empty.
C10_ExactTierNeverDecidesNonEmpty ==
    pc = "found" =>
        /\ found.tier # "exact"
        /\ (EqualTitles # {} /\ normalize_text(input) # <<>>) =>
               found.tier = "containment" /\ found.book = Min(EqualTitles)
        /\ normalize_text(input) = <<>> => found = [book |-> NoBook, tier |-> "empty"]

\* a message equal, once normalized, to the normalized title of two entries
C10_Witness ==
    /\ pc = "found"
    /\ Cardinality(EqualTitles) > 1
    /\ found.book = Min(EqualTitles)

----------------------------------------------------------------------------
(* Properties of the conversation, one request after the other *)

\* the request handled last was classified with a book-requiring intent and
\* its message resolved to no catalog entry
UnresolvedBookRequest ==
    request.handled /\ request.intent \in BookIntents /\ request.found = NoBook

\* C1: a book-requiring request whose message resolves to no catalog entry
\* replies about the book of the latest earlier request that resolved a book
\* from its own message or made a random_book pick, however many requests
\* that set no book lie in between.
C1_FallbackToLatestBook ==
    (UnresolvedBookRequest /\ request.remembered # NoBook) =>
        /\ response.outcome = "returned"
        /\ response.status = 200
        /\ response.reply = BookReply(request.intent, request.remembered)

\* such a request, after a request that set the book and two that did not
C1_Witness ==
    /\ UnresolvedBookRequest
    /\ request.remembered # NoBook
    /\ request.gap >= 2
    /\ response.reply.book = request.remembered

\* C2: whatever label the classifier returns, get_bot_response returns a
\* reply string, never nothing.
C2_AlwaysAReplyString ==
    (request.handled /\ response.outcome = "returned" /\ response.status = 200) =>
        response.reply # NoneReply

\* C7: a book-requiring request whose message resolves to no catalog entry
\* while last_book is None gets the "Please mention the book title." reply
\* as a normal return value, and last_book stays None.
C7_PleaseMentionWhenNoBook ==
    (request.json # "none" /\ request.intent \in BookIntents /\ request.found = NoBook
        /\ request.before = NoBook) =>
        /\ response.outcome = "returned"
        /\ response.exception = "none"
        /\ response.status = 200
        /\ response.reply = PleaseMention
        /\ last_book = NoBook

C7_Witness ==
    /\ UnresolvedBookRequest
    /\ request.before = NoBook
    /\ response.reply = PleaseMention
    /\ books_data # <<>>

\* C8: every fault raised while a request is handled is caught inside
\* get_bot_reply and answered with the generic error reply and status 500; no
\* request leaves the handler by an exception.
C8_EveryFaultCaught ==
    request.json # "none" =>
        /\ response.outcome = "returned"
        /\ response.exception # "none" =>
               response.status = 500 /\ response.reply = ServerError

\* the request handled last was a greeting
GreetingRequest == request.handled /\ request.intent = "greeting"

\* C9: last_book is None or an entry of the catalog; it is None exactly as
\* long as no request has resolved a book under a book-requiring intent or
\* made a random_book pick; greeting requests and book-requiring requests
\* whose message resolves no book leave it unchanged.
C9_MemoryInvariant ==
    /\ last_book \in {NoBook} \cup DOMAIN books_data
    /\ last_book = NoBook <=> remembered = NoBook
    /\ (GreetingRequest \/ UnresolvedBookRequest) => last_book = request.before

\* a greeting and an unresolved request have been handled after the memory was set
C9_Witness ==
    /\ last_book # NoBook
    /\ UnresolvedBookRequest
    /\ request.before = last_book
    /\ request.gap >= 1

----------------------------------------------------------------------------
(* Properties of the memory under concurrent requests *)

\* the book of the latest write among the first n accesses, NoBook before any
RECURSIVE LastWritten(_)
LastWritten(n) ==
    IF n = 0 THEN NoBook
    ELSE IF accesses[n].kind = "write" THEN accesses[n].book
    ELSE LastWritten(n - 1)

====
